---- MODULE Spec2Model ----
(***************************************************************************)
(* Model of strava_mcp_server.py: the StravaAPI credential state and its   *)
(* refresh, the authenticated activity fetch, the three report functions   *)
(* of handle_call_tool and the try/except boundary of handle_call_tool.    *)
(*                                                                         *)
(* Time is in whole seconds.  An Optional value is a sequence of length    *)
(* at most one: None is <<>>, a present value x is <<x>>.  A JSON object   *)
(* is a record whose fields are Optionals (<<>> = the key is missing).     *)
(* Init is the state main() leaves before app.run: strava_api is set, so   *)
(* the "Strava API not initialized" return of handle_call_tool is not      *)
(* reachable.  Floating-point rounding is not modelled: mileages and paces *)
(* are exact fixed-point numbers.                                          *)
(***************************************************************************)
EXTENDS Integers, Sequences, FiniteSets, TLC

VARIABLES
    now,          \* datetime.now(), seconds
    strava_api,   \* the StravaAPI object: access_token, refresh_token, token_expires_at
    pc,           \* position of the one handle_call_tool coroutine
    request,      \* the HTTP request the coroutine is suspended on (Optional)
    inv,          \* record of the current (or last finished) invocation
    issued,       \* history: issuance time and declared lifetime of the held access token
    delivered,    \* history: refresh credentials delivered by the token endpoint
    activities    \* input of the report functions in the report specifications

vars == <<now, strava_api, pc, request, inv, issued, delivered, activities>>

None == <<>>
Some(x) == <<x>>
Val(o) == o[1]

Min(a, b) == IF a <= b THEN a ELSE b

----------------------------------------------------------------------------
(* Bounds of the model *)

MaxTime == 500
TickStep == 100
MaxActs == 4

(* Program constants *)

FiveMinutes == 300
SecondsPerDay == 86400
DefaultDays == 30
DefaultWeeks == 4
DefaultPerPage == 30

(* Input domains *)

ConfiguredRefresh == "r0"
AccessTokens == {"a1", "a2"}
RefreshTokens == {"r1", "r2"}
Lifetimes == {200, 700}

ToolNames == {"get_recent_runs", "get_weekly_mileage", "analyze_pace_trends"}
OtherNames == {"get_athlete"}

\* the JSON body of a token response, and the response itself
TokenData ==
    [access_token : {None} \cup {Some(a) : a \in AccessTokens},
     refresh_token : {None} \cup {Some(r) : r \in RefreshTokens},
     expires_in : {None} \cup {Some(l) : l \in Lifetimes}]

NoTokenData == [access_token |-> None, refresh_token |-> None, expires_in |-> None]

TokenResponses ==
    {[is_success |-> FALSE, json |-> NoTokenData]}
        \cup {[is_success |-> TRUE, json |-> d] : d \in TokenData}

----------------------------------------------------------------------------
(* Exceptions and text results *)

\* str(e) of the exceptions the handler can meet
HTTPStatusError(url) == <<"HTTPStatusError", url>>
KeyError(key) == <<"KeyError", key>>

TokenUrl == "https://www.strava.com/oauth/token"
ActivitiesUrl == "https://www.strava.com/api/v3/athlete/activities"

TextContent(t) == [type |-> "text", text |-> t]
Literal(s) == [form |-> "literal", s |-> s]
ErrorText(e) == [form |-> "error", prefix |-> "Error: ", message |-> e]
UnknownToolText(name) == [form |-> "unknown", prefix |-> "Unknown tool: ", name |-> name]

\* the outcome of a block of code: a returned value or a raised exception
Return(v) == [ret |-> Some(v), exc |-> None]
Raise(e) == [ret |-> None, exc |-> Some(e)]

----------------------------------------------------------------------------
(* StravaAPI *)

\* StravaAPI.__init__
StravaAPI(refresh_token) ==
    [access_token |-> None, refresh_token |-> refresh_token, token_expires_at |-> None]

\* variant: the POST carries the refresh credential of the configuration
TokenRequestConfigured(api) ==
    [url |-> TokenUrl, refresh_token |-> ConfiguredRefresh, grant_type |-> "refresh_token"]

\* the form posted to the token endpoint by refresh_access_token
TokenRequest(api) ==
    [url |-> TokenUrl, refresh_token |-> api.refresh_token, grant_type |-> "refresh_token"]

\* variant: a refused refresh drops the held access token
refresh_dropping_token(api, response, t) ==
    IF ~response.is_success
    THEN [api |-> [api EXCEPT !.access_token = None],
          exc |-> Some(HTTPStatusError(TokenUrl))]
    ELSE IF \E k \in DOMAIN response.json : response.json[k] = None
    THEN [api |-> api, exc |-> Some(KeyError("access_token"))]
    ELSE [api |-> [access_token |-> response.json.access_token,
                   refresh_token |-> Val(response.json.refresh_token),
                   token_expires_at |-> Some(t + Val(response.json.expires_in))],
          exc |-> None]

\* refresh_access_token from response.raise_for_status() on: the assignments
\* happen one after the other, and a missing key raises KeyError between them.
\* t is datetime.now() when the response is processed.
refresh_access_token(api, response, t) ==
    IF ~response.is_success
    THEN [api |-> api, exc |-> Some(HTTPStatusError(TokenUrl))]
    ELSE LET token_data == response.json IN
         IF token_data.access_token = None
         THEN [api |-> api, exc |-> Some(KeyError("access_token"))]
         ELSE LET api1 == [api EXCEPT !.access_token = token_data.access_token] IN
              IF token_data.refresh_token = None
              THEN [api |-> api1, exc |-> Some(KeyError("refresh_token"))]
              ELSE LET api2 == [api1 EXCEPT !.refresh_token = Val(token_data.refresh_token)] IN
                   IF token_data.expires_in = None
                   THEN [api |-> api2, exc |-> Some(KeyError("expires_in"))]
                   ELSE [api |-> [api2 EXCEPT !.token_expires_at =
                                                Some(t + Val(token_data.expires_in))],
                         exc |-> None]

\* variant: the refresh starts only past the margin, not at it
NeedsRefreshStrict(api, t) ==
    \/ api.access_token = None
    \/ /\ api.token_expires_at # None
       /\ t > Val(api.token_expires_at) - FiveMinutes

\* the condition of ensure_valid_token
NeedsRefresh(api, t) ==
    \/ api.access_token = None
    \/ /\ api.token_expires_at # None
       /\ t >= Val(api.token_expires_at) - FiveMinutes

\* the query parameters of get_activities (before is never passed by the tools)
Params(after, per_page) ==
    IF after # 0
    THEN [per_page |-> Some(per_page), after |-> Some(after)]
    ELSE [per_page |-> Some(per_page), after |-> None]

\* variant: the GET carries the refresh credential as its bearer
ActivitiesRequestWrongToken(api, after) ==
    [url |-> ActivitiesUrl,
     bearer |-> Some(api.refresh_token),
     params |-> Params(after, DefaultPerPage)]

\* the GET of get_activities, built after ensure_valid_token returned
ActivitiesRequest(api, after) ==
    [url |-> ActivitiesUrl,
     bearer |-> api.access_token,
     params |-> Params(after, DefaultPerPage)]

----------------------------------------------------------------------------
(* Units, dates and formats                                                *)
(*                                                                         *)
(* distance is in whole metres, average_speed in tenths of a metre per     *)
(* second, miles in units of 10^-7 mile and a pace in milliseconds per     *)
(* mile, so that the factor 0.000621371 is applied exactly.  A date string *)
(* is the tuple of its numeric fields, compared field by field as the      *)
(* characters of the zero-padded string are: start_date_local is           *)
(* <<year, month, day, hour>>, strftime("%Y-%m-%d") gives <<year, month,    *)
(* day>> and strftime("%m/%d") gives <<month, day>>.                        *)

MilesFactor == 621371

\* meters * 0.000621371, in 10^-7 mile
meters_to_miles(meters) ==
    (meters \div 100) * MilesFactor + ((meters % 100) * MilesFactor) \div 100

\* floor(n * 10^k / d), one decimal digit at a time
RECURSIVE ScaledDiv(_, _, _)
ScaledDiv(n, d, k) ==
    IF k = 0 THEN n \div d
    ELSE (n \div d) * 10 ^ k + ScaledDiv((n % d) * 10, d, k - 1)

\* 1 / (speed * 0.000621371) seconds per mile, in milliseconds
PaceSeconds(average_speed) == ScaledDiv(1000000000, MilesFactor * average_speed, 4)

\* f"{int(s // 60)}:{int(s % 60):02d}" of a pace in milliseconds
MinSec(pace) == <<pace \div 60000, (pace % 60000) \div 1000>>

meters_per_second_to_pace(mps) ==
    IF mps = 0 THEN <<"N/A">> ELSE MinSec(PaceSeconds(mps))

\* f"{x:.1f}" and f"{x:.2f}" of a mileage: tenths and hundredths of a mile
Format1(miles) == (miles + 500000) \div 1000000
Format2(miles) == (miles + 50000) \div 100000

\* days from 1970-01-01 to a civil date, and back (proleptic Gregorian)
DaysFromCivil(y, m, d) ==
    LET yy == IF m <= 2 THEN y - 1 ELSE y
        era == yy \div 400
        yoe == yy - era * 400
        mp == (m + 9) % 12
        doy == (153 * mp + 2) \div 5 + d - 1
        doe == yoe * 365 + yoe \div 4 - yoe \div 100 + doy
    IN era * 146097 + doe - 719468

CivilFromDays(z0) ==
    LET z == z0 + 719468
        era == z \div 146097
        doe == z - era * 146097
        yoe == (doe - doe \div 1460 + doe \div 36524 - doe \div 146096) \div 365
        doy == doe - (365 * yoe + yoe \div 4 - yoe \div 100)
        mp == (5 * doy + 2) \div 153
        d == doy - (153 * mp + 2) \div 5 + 1
        m == IF mp < 10 THEN mp + 3 ELSE mp - 9
        y == yoe + era * 400 + (IF m <= 2 THEN 1 ELSE 0)
    IN <<y, m, d>>

\* date.weekday(): Monday is 0
weekday(date) == (DaysFromCivil(date[1], date[2], date[3]) + 3) % 7

\* (date - timedelta(days=date.weekday())).strftime("%Y-%m-%d")
WeekKey(date) ==
    CivilFromDays(DaysFromCivil(date[1], date[2], date[3]) - weekday(date))

\* string comparison of two date strings of the same format
StrLess(a, b) ==
    \E i \in 1..Len(a) :
        /\ a[i] < b[i]
        /\ \A j \in 1..(i - 1) : a[j] = b[j]

\* sorted(keys, reverse=True) of a set of distinct strings
RECURSIVE SortedReverse(_)
SortedReverse(keys) ==
    IF keys = {} THEN <<>>
    ELSE LET top == CHOOSE k \in keys : \A o \in keys \ {k} : StrLess(o, k)
         IN <<top>> \o SortedReverse(keys \ {top})

\* list.sort(key=start_date_local): stable, ascending
RECURSIVE SortByDate(_)
SortByDate(runs) ==
    IF runs = <<>> THEN <<>>
    ELSE LET n == Len(runs)
             x == runs[n]
             front == SortByDate(SubSeq(runs, 1, n - 1))
             keep == {i \in 1..Len(front) :
                          ~StrLess(x.start_date_local, front[i].start_date_local)}
             k == Cardinality(keep)
         IN SubSeq(front, 1, k) \o <<x>> \o SubSeq(front, k + 1, Len(front))

RECURSIVE SumSeq(_)
SumSeq(s) == IF s = <<>> THEN 0 ELSE s[1] + SumSeq(Tail(s))

\* the first key of keys that an element of seq lacks (the KeyError a loop
\* over seq reading those keys raises), or None
RECURSIVE FirstMissing(_, _)
FirstMissing(seq, keys) ==
    IF seq = <<>> THEN None
    ELSE LET lacks == {i \in 1..Len(keys) : keys[i] \notin DOMAIN seq[1]}
         IN IF lacks # {}
            THEN Some(keys[CHOOSE i \in lacks : \A j \in lacks : i <= j])
            ELSE FirstMissing(Tail(seq), keys)

----------------------------------------------------------------------------
(* The three reports of handle_call_tool, from the fetched activity list   *)

SelectRuns(acts) == SelectSeq(acts, LAMBDA a : a.type = "Run")
SelectPaced(acts) == SelectSeq(acts, LAMBDA a : a.type = "Run" /\ a.average_speed # 0)

\* one line of the recent-runs report
RunLine(run) ==
    [date |-> SubSeq(run.start_date_local, 1, 3),
     name |-> run.name,
     distance |-> Format2(meters_to_miles(run.distance)),
     avg_pace |-> IF run.average_speed # 0
                  THEN meters_per_second_to_pace(run.average_speed)
                  ELSE <<"N/A">>,
     duration |-> <<run.elapsed_time \div 60, run.elapsed_time % 60>>]

\* the get_recent_runs branch after the fetch
RecentRuns(acts, days) ==
    IF FirstMissing(acts, <<"type">>) # None THEN Raise(KeyError("type"))
    ELSE LET runs == SelectRuns(acts)
             missing == FirstMissing(runs,
                           <<"start_date_local", "distance", "average_speed",
                             "name", "elapsed_time">>)
         IN IF runs = <<>>
            THEN Return(Literal("No running activities found in the specified period."))
            ELSE IF missing # None THEN Raise(KeyError(Val(missing)))
            ELSE Return([form |-> "recent", count |-> Len(runs), days |-> days,
                         lines |-> [i \in 1..Len(runs) |-> RunLine(runs[i])]])

\* the loop that groups the runs by week: the dict is the sequence of its
\* items in insertion order
RECURSIVE GroupByWeek(_, _)
GroupByWeek(runs, weekly_mileage) ==
    IF runs = <<>> THEN weekly_mileage
    ELSE LET run == runs[1]
             week_key == WeekKey(run.start_date_local)
             miles == meters_to_miles(run.distance)
             at == {i \in 1..Len(weekly_mileage) : weekly_mileage[i].key = week_key}
             next == IF at = {}
                     THEN Append(weekly_mileage, [key |-> week_key, value |-> 0 + miles])
                     ELSE [i \in 1..Len(weekly_mileage) |->
                             IF i \in at
                             THEN [key |-> week_key,
                                   value |-> weekly_mileage[i].value + miles]
                             ELSE weekly_mileage[i]]
         IN GroupByWeek(Tail(runs), next)

\* variant: the average is taken over the requested number of weeks
AverageOverRequested(weekly_mileage, weeks) == weeks

\* the divisor of the weekly average
AverageOver(weekly_mileage, weeks) == Len(weekly_mileage)

\* variant: the week lines are listed oldest first
RECURSIVE WeekOrderAscending(_)
WeekOrderAscending(keys) ==
    IF keys = {} THEN <<>>
    ELSE LET low == CHOOSE k \in keys : \A o \in keys \ {k} : StrLess(k, o)
         IN <<low>> \o WeekOrderAscending(keys \ {low})

\* the order of the week lines
WeekOrder(keys) == SortedReverse(keys)

\* the get_weekly_mileage branch after the fetch
WeeklyMileage(acts, weeks) ==
    IF FirstMissing(acts, <<"type">>) # None THEN Raise(KeyError("type"))
    ELSE LET runs == SelectRuns(acts)
             missing == FirstMissing(runs, <<"start_date_local", "distance">>)
         IN IF missing # None THEN Raise(KeyError(Val(missing)))
            ELSE LET weekly_mileage == GroupByWeek(runs, <<>>)
                     value(k) == LET i == CHOOSE j \in 1..Len(weekly_mileage) :
                                                weekly_mileage[j].key = k
                                 IN weekly_mileage[i].value
                     order == WeekOrder({weekly_mileage[i].key :
                                            i \in 1..Len(weekly_mileage)})
                     total_mileage == SumSeq([i \in 1..Len(weekly_mileage) |->
                                                 weekly_mileage[i].value])
                 IN IF weekly_mileage = <<>>
                    THEN Return(Literal(
                        "No running activities found for weekly mileage calculation."))
                    ELSE LET avg_weekly ==
                                 total_mileage \div AverageOver(weekly_mileage, weeks)
                         IN Return([form |-> "weekly", weeks |-> weeks,
                                    lines |-> [i \in 1..Len(order) |->
                                                 [week_start |-> order[i],
                                                  miles |-> Format1(value(order[i]))]],
                                    total |-> Format1(total_mileage),
                                    average |-> Format1(avg_weekly)])

TenSeconds == 10000

\* variant: a larger recent pace is taken for an improvement
TrendSwapped(paces) ==
    LET n == Len(paces)
        recent_avg == SumSeq(SubSeq(paces, IF n > 3 THEN n - 2 ELSE 1, n)) \div Min(3, n)
        early_avg == SumSeq(SubSeq(paces, 1, Min(3, n))) \div Min(3, n)
        diff == recent_avg - early_avg
        abs == IF diff < 0 THEN 0 - diff ELSE diff
        trend == IF recent_avg > early_avg THEN "improving" ELSE "declining"
    IN IF abs < TenSeconds THEN "stable" ELSE trend

\* the trend label of a list of at least two paces
Trend(paces) ==
    LET n == Len(paces)
        recent_avg == SumSeq(SubSeq(paces, IF n > 3 THEN n - 2 ELSE 1, n)) \div Min(3, n)
        early_avg == SumSeq(SubSeq(paces, 1, Min(3, n))) \div Min(3, n)
        diff == recent_avg - early_avg
        abs == IF diff < 0 THEN 0 - diff ELSE diff
        trend == IF recent_avg < early_avg THEN "improving" ELSE "declining"
    IN IF abs < TenSeconds THEN "stable" ELSE trend

\* the guard of the average/trend block
HasTrend(paces) == Len(paces) >= 2

\* the analyze_pace_trends branch after the fetch
PaceTrends(acts, days) ==
    IF FirstMissing(acts, <<"type">>) # None THEN Raise(KeyError("type"))
    ELSE IF FirstMissing(SelectRuns(acts), <<"average_speed">>) # None
    THEN Raise(KeyError("average_speed"))
    ELSE LET unsorted == SelectPaced(acts)
             missing == FirstMissing(unsorted, <<"start_date_local", "distance">>)
         IN IF unsorted = <<>>
            THEN Return(Literal("No running activities with pace data found."))
            ELSE IF missing # None THEN Raise(KeyError(Val(missing)))
            ELSE LET runs == SortByDate(unsorted)
                     paces == [i \in 1..Len(runs) |-> PaceSeconds(runs[i].average_speed)]
                     lines == [i \in 1..Len(runs) |->
                                 [date |-> SubSeq(runs[i].start_date_local, 2, 3),
                                  pace |-> meters_per_second_to_pace(runs[i].average_speed),
                                  distance |-> Format1(meters_to_miles(runs[i].distance))]]
                 IN Return([form |-> "pace", days |-> days, lines |-> lines,
                            summary |-> IF HasTrend(paces)
                                        THEN Some([average |->
                                                       MinSec(SumSeq(paces) \div Len(paces)),
                                                   trend |-> Trend(paces)])
                                        ELSE None])

----------------------------------------------------------------------------
(* handle_call_tool *)

Arguments ==
    {[days |-> None, weeks |-> None], [days |-> Some(7), weeks |-> Some(2)]}

\* arguments.get(key, default)
Get(arguments, key, default) ==
    IF arguments[key] = None THEN default ELSE Val(arguments[key])

\* the number of days the fetch of a tool reaches back
DaysBack(name, arguments) ==
    IF name = "get_weekly_mileage"
    THEN Get(arguments, "weeks", DefaultWeeks) * 7
    ELSE Get(arguments, "days", DefaultDays)

\* int((datetime.now() - timedelta(days=days)).timestamp())
AfterTimestamp(name, arguments, t) == t - DaysBack(name, arguments) * SecondsPerDay

\* the branch of handle_call_tool for a tool, after its fetch returned acts
Report(name, arguments, acts) ==
    CASE name = "get_recent_runs" ->
            RecentRuns(acts, Get(arguments, "days", DefaultDays))
      [] name = "get_weekly_mileage" ->
            WeeklyMileage(acts, Get(arguments, "weeks", DefaultWeeks))
      [] name = "analyze_pace_trends" ->
            PaceTrends(acts, Get(arguments, "days", DefaultDays))

\* variant: the except clause catches the HTTP errors only
BoundaryHTTPOnly(outcome) ==
    IF outcome.exc # None /\ Val(outcome.exc)[1] = "HTTPStatusError"
    THEN [results |-> <<TextContent(ErrorText(Val(outcome.exc)))>>, raised |-> None]
    ELSE IF outcome.exc # None
    THEN [results |-> <<>>, raised |-> outcome.exc]
    ELSE [results |-> <<TextContent(Val(outcome.ret))>>, raised |-> None]

\* the try/except of handle_call_tool: what the call hands to the dispatcher
\* for the outcome of its body
Boundary(outcome) ==
    IF outcome.exc # None
    THEN [results |-> <<TextContent(ErrorText(Val(outcome.exc)))>>, raised |-> None]
    ELSE [results |-> <<TextContent(Val(outcome.ret))>>, raised |-> None]

----------------------------------------------------------------------------
(* The state machine: one invocation at a time, suspended at its awaits *)

NoInvocation ==
    [name |-> "", arguments |-> [days |-> None, weeks |-> None],
     called_at |-> 0, before |-> StravaAPI(ConfiguredRefresh), after |-> 0,
     ensure |-> "not_called", ensure_at |-> 0,
     token_posts |-> 0, token_success |-> None,
     activity_gets |-> 0, activity_success |-> None,
     results |-> <<>>, raised |-> None]

Init ==
    /\ now = 0
    /\ strava_api = StravaAPI(ConfiguredRefresh)
    /\ pc = "idle"
    /\ request = None
    /\ inv = NoInvocation
    /\ issued = None
    /\ delivered = [any |-> ConfiguredRefresh, stored |-> ConfiguredRefresh]
    /\ activities = <<>>

\* the body of handle_call_tool ends with outcome
Finish(invocation, outcome) ==
    LET b == Boundary(outcome) IN
    /\ inv' = [invocation EXCEPT !.results = b.results, !.raised = b.raised]
    /\ pc' = "idle"
    /\ request' = None

\* get_activities after ensure_valid_token returned: the GET is sent
SendActivitiesRequest(invocation, api) ==
    /\ inv' = [invocation EXCEPT !.ensure = "returned", !.ensure_at = now,
                                 !.activity_gets = @ + 1]
    /\ request' = Some(ActivitiesRequest(api, invocation.after))
    /\ pc' = "act_wait"

\* handle_call_tool is called: it runs to its first await
CallTool(name, arguments) ==
    /\ pc = "idle"
    /\ LET fresh == [NoInvocation EXCEPT !.name = name, !.arguments = arguments,
                                         !.called_at = now, !.before = strava_api]
       IN IF name \notin ToolNames
          THEN Finish(fresh, Return(UnknownToolText(name)))
          ELSE LET started == [fresh EXCEPT !.after = AfterTimestamp(name, arguments, now)]
               IN IF NeedsRefresh(strava_api, now)
                  THEN /\ inv' = [started EXCEPT !.ensure = "awaiting",
                                                 !.token_posts = @ + 1]
                       /\ request' = Some(TokenRequest(strava_api))
                       /\ pc' = "token_wait"
                  ELSE SendActivitiesRequest(started, strava_api)
    /\ UNCHANGED <<now, strava_api, issued, delivered, activities>>

\* the token endpoint answers the POST of refresh_access_token
TokenResponse(response) ==
    /\ pc = "token_wait"
    /\ LET r == refresh_access_token(strava_api, response, now)
           answered == [inv EXCEPT !.token_success = Some(response.is_success)]
       IN /\ strava_api' = r.api
          /\ IF r.exc # None
             THEN Finish([answered EXCEPT !.ensure = "raised"], Raise(Val(r.exc)))
             ELSE SendActivitiesRequest(answered, r.api)
    /\ issued' = IF response.is_success /\ response.json.access_token # None
                 THEN Some([at |-> now, lifetime |-> response.json.expires_in])
                 ELSE issued
    /\ delivered' =
          LET json == response.json IN
          [any |-> IF json.refresh_token # None
                   THEN Val(json.refresh_token) ELSE delivered.any,
           stored |-> IF response.is_success /\ json.access_token # None
                         /\ json.refresh_token # None
                      THEN Val(json.refresh_token) ELSE delivered.stored]
    /\ UNCHANGED <<now, activities>>

\* the activity endpoint answers the GET of get_activities
ActivitiesResponse(response) ==
    /\ pc = "act_wait"
    /\ LET answered == [inv EXCEPT !.activity_success = Some(response.is_success)]
       IN IF ~response.is_success
          THEN Finish(answered, Raise(HTTPStatusError(ActivitiesUrl)))
          ELSE Finish(answered, Report(inv.name, inv.arguments, response.json))
    /\ UNCHANGED <<now, strava_api, issued, delivered, activities>>

\* time passes, also while a request is in flight
Tick ==
    /\ now + TickStep <= MaxTime
    /\ now' = now + TickStep
    /\ UNCHANGED <<strava_api, pc, request, inv, issued, delivered, activities>>

\* what the activity endpoint may answer in the server specification
Activity(type, date, distance, average_speed) ==
    [type |-> type, start_date_local |-> date, distance |-> distance,
     average_speed |-> average_speed, elapsed_time |-> 460, name |-> "Morning Run"]

FetchedLists ==
    {<<>>,
     <<Activity("Ride", <<2024, 1, 1, 8>>, 20000, 80)>>,
     <<Activity("Run", <<2024, 1, 3, 8>>, 3200, 35),
       Activity("Run", <<2023, 12, 31, 8>>, 1600, 30)>>,
     <<Activity("Run", <<2024, 1, 3, 8>>, 3200, 35), [type |-> "Run"]>>}

ActivitiesResponses ==
    {[is_success |-> FALSE, json |-> <<>>]}
        \cup {[is_success |-> TRUE, json |-> l] : l \in FetchedLists}

Next ==
    \/ \E name \in ToolNames \cup OtherNames, arguments \in Arguments :
           CallTool(name, arguments)
    \/ \E response \in TokenResponses : TokenResponse(response)
    \/ \E response \in ActivitiesResponses : ActivitiesResponse(response)
    \/ Tick

Spec == Init /\ [][Next]_vars

----------------------------------------------------------------------------
(* The report functions on their own: the fetch has returned activities    *)

Universe ==
    {Activity("Run", <<2023, 12, 25, 8>>, 1600, 30),
     Activity("Run", <<2023, 12, 25, 8>>, 3200, 33),
     Activity("Run", <<2023, 12, 31, 8>>, 3200, 35),
     Activity("Run", <<2024, 1, 1, 8>>, 5000, 31),
     Activity("Run", <<2024, 1, 10, 8>>, 1600, 0),
     Activity("Ride", <<2024, 1, 1, 9>>, 20000, 80),
     Activity("Run", <<2024, 2, 29, 8>>, 10000, 30),
     Activity("Run", <<2024, 3, 3, 8>>, 1600, 36)}

ActivityLists == UNION {[1..n -> Universe] : n \in 0..MaxActs}

InitReports ==
    /\ now = 0
    /\ strava_api = StravaAPI(ConfiguredRefresh)
    /\ pc = "fetched"
    /\ request = None
    /\ inv = NoInvocation
    /\ issued = None
    /\ delivered = [any |-> ConfiguredRefresh, stored |-> ConfiguredRefresh]
    /\ activities \in ActivityLists

\* the branch of a tool runs on the fetched list and its result is returned
ComputeReport(name, arguments) ==
    /\ pc = "fetched"
    /\ Finish([NoInvocation EXCEPT !.name = name, !.arguments = arguments],
              Report(name, arguments, activities))
    /\ UNCHANGED <<now, strava_api, issued, delivered, activities>>

NextReports ==
    \E name \in ToolNames, arguments \in Arguments : ComputeReport(name, arguments)

SpecReports == InitReports /\ [][NextReports]_vars

----------------------------------------------------------------------------
(* Claims about the token manager, the fetch and the dispatch boundary     *)
(* (specification Spec)                                                    *)

Finished == pc = "idle" /\ inv.name # ""
ResultText == inv.results[1].text

\* C1: whenever ensure_valid_token has returned, an access token is held and
\* its stored expiry is more than 5 minutes after the time of the return.
C1_ValidForFiveMinutes ==
    inv.ensure = "returned" =>
        /\ strava_api.access_token # None
        /\ strava_api.token_expires_at # None
        /\ Val(strava_api.token_expires_at) > inv.ensure_at + FiveMinutes

\* C2: ensure_valid_token posts to the token endpoint if and only if, when it
\* is called, no access token is held or the time is at or past the stored
\* expiry minus 5 minutes; otherwise nothing is posted and the credential
\* state stays as it was.
C2_RefreshIffDue ==
    inv.name \in ToolNames =>
        LET held == inv.before.access_token # None
            near == /\ inv.before.token_expires_at # None
                    /\ inv.called_at + FiveMinutes >= Val(inv.before.token_expires_at)
        IN /\ (inv.token_posts >= 1) <=> (~held \/ near)
           /\ (held /\ ~near) => (inv.token_posts = 0 /\ strava_api = inv.before)

C2_Witness ==
    /\ pc = "act_wait"
    /\ inv.token_posts = 0
    /\ inv.before.access_token # None
    /\ inv.before.token_expires_at # None
    /\ inv.called_at + FiveMinutes < Val(inv.before.token_expires_at)

\* C3: the stored expiry, when present, is the issuance time of the held
\* access token plus the lifetime declared by the response that delivered it.
C3_ExpiryIsIssuancePlusLifetime ==
    strava_api.token_expires_at # None =>
        /\ issued # None
        /\ Val(issued).lifetime # None
        /\ Val(strava_api.token_expires_at) = Val(issued).at + Val(Val(issued).lifetime)

\* C4: a non-success answer of the token endpoint fails ensure_valid_token
\* after exactly one POST, no GET is sent, the call ends with the error text
\* and the credential state is as it was before the call.
C4_RefusedRefreshLeavesState ==
    inv.token_success = Some(FALSE) =>
        /\ inv.ensure = "raised"
        /\ inv.token_posts = 1
        /\ inv.activity_gets = 0
        /\ strava_api = inv.before
        /\ Finished
        /\ ResultText = ErrorText(HTTPStatusError(TokenUrl))

C4_Witness ==
    /\ inv.token_success = Some(FALSE)
    /\ inv.before.access_token # None
    /\ inv.before.refresh_token # ConfiguredRefresh

\* C5: every invocation of a tool runs ensure_valid_token; the GET is sent
\* only after it returned, never after it raised, at most once per
\* invocation, and its bearer is the access token held when it returned.
C5_FetchAfterEnsure ==
    /\ inv.name \in ToolNames => inv.ensure # "not_called"
    /\ inv.activity_gets <= 1
    /\ inv.activity_gets = 1 => inv.ensure = "returned"
    /\ inv.ensure = "raised" => inv.activity_gets = 0 /\ inv.activity_success = None
    /\ pc = "act_wait" =>
          /\ inv.activity_gets = 1
          /\ request # None
          /\ Val(request).url = ActivitiesUrl
          /\ Val(request).bearer # None
          /\ Val(request).bearer = strava_api.access_token
    /\ inv.activity_success = Some(FALSE) =>
          Finished /\ inv.activity_gets = 1
             /\ ResultText = ErrorText(HTTPStatusError(ActivitiesUrl))

C5_Witness ==
    /\ pc = "act_wait"
    /\ inv.token_posts = 1
    /\ inv.before.access_token # None
    /\ Val(request).bearer # inv.before.access_token

\* C6: an invocation ends with exactly one text result and nothing raised;
\* a failure of the refresh or of the fetch gives an "Error: ..." text and
\* no report, an unknown name gives the text naming it, and the handler is
\* then ready for the next invocation.
C6_OneTextResult ==
    /\ pc # "idle" => inv.results = <<>> /\ inv.raised = None
    /\ Finished =>
          /\ inv.raised = None
          /\ Len(inv.results) = 1
          /\ inv.results[1].type = "text"
          /\ (inv.ensure = "raised" \/ inv.activity_success = Some(FALSE))
                => (ResultText.form = "error" /\ ResultText.prefix = "Error: ")
          /\ inv.name \notin ToolNames => ResultText = UnknownToolText(inv.name)

C6_Witness ==
    /\ Finished
    /\ inv.activity_success = Some(TRUE)
    /\ ResultText = ErrorText(KeyError("start_date_local"))

\* C10 as stated: every POST to the token endpoint carries the refresh
\* credential of the most recent token response that supplied one.
C10_SendsLatestDelivered ==
    pc = "token_wait" => Val(request).refresh_token = delivered.any

\* C10 as amended: every POST to the token endpoint carries the refresh
\* credential of the most recent success response that held both an
\* access_token and a refresh_token (the configured one if there was none).
C10_SendsLatestStored ==
    pc = "token_wait" =>
        /\ Val(request).url = TokenUrl
        /\ Val(request).refresh_token = delivered.stored

C10_Witness ==
    /\ pc = "token_wait"
    /\ Val(request).refresh_token = "r2"
    /\ inv.before.access_token # None
    /\ inv.before.token_expires_at # None

----------------------------------------------------------------------------
(* Claims about the reports (specification SpecReports)                    *)

Done(name) == pc = "idle" /\ inv.name = name

Ordinal(date) == DaysFromCivil(date[1], date[2], date[3])

\* the activities of type "Run", and those among them with a speed
RunIdx == {i \in 1..Len(activities) : activities[i].type = "Run"}
PacedIdx == {i \in RunIdx : activities[i].average_speed # 0}

\* run i starts in the seven days that begin with the date week_start
InWeek(week_start, i) ==
    LET d == Ordinal(activities[i].start_date_local)
    IN Ordinal(week_start) <= d /\ d < Ordinal(week_start) + 7

\* 1970-01-05 was a Monday
IsMonday(date) == (Ordinal(date) - 4) % 7 = 0

RECURSIVE MilesOf(_)
MilesOf(S) ==
    IF S = {} THEN 0
    ELSE LET i == CHOOSE j \in S : TRUE
         IN meters_to_miles(activities[i].distance) + MilesOf(S \ {i})

\* the weeks, counted from 1970-01-05, that hold a run
WeeksWithRuns == {(Ordinal(activities[i].start_date_local) - 4) \div 7 : i \in RunIdx}

\* C7: the week lines are exactly the Monday-aligned weeks that hold a run,
\* each with the sum of the miles of its runs, a later week before an
\* earlier one.
C7_WeekLines ==
    (Done("get_weekly_mileage") /\ RunIdx # {}) =>
        /\ ResultText.form = "weekly"
        /\ LET lines == ResultText.lines IN
           /\ Len(lines) = Cardinality(WeeksWithRuns)
           /\ \A l \in 1..Len(lines) :
                 /\ IsMonday(lines[l].week_start)
                 /\ \E i \in RunIdx : InWeek(lines[l].week_start, i)
                 /\ lines[l].miles =
                       Format1(MilesOf({i \in RunIdx : InWeek(lines[l].week_start, i)}))
           /\ \A i \in RunIdx : \E l \in 1..Len(lines) : InWeek(lines[l].week_start, i)
           /\ \A a, b \in 1..Len(lines) :
                 a < b => Ordinal(lines[a].week_start) > Ordinal(lines[b].week_start)

C7_Witness ==
    /\ Done("get_weekly_mileage")
    /\ ResultText.form = "weekly"
    /\ Len(ResultText.lines) = 3
    /\ Cardinality(RunIdx) = 4
    /\ ResultText.lines[1].week_start[1] # ResultText.lines[3].week_start[1]

\* C8: the total is the sum of the miles of all runs, the average is the
\* total over the number of distinct weeks that hold a run, whatever the
\* weeks argument; with no run the fixed message is the result.
C8_TotalAndAverage ==
    Done("get_weekly_mileage") =>
        IF RunIdx = {}
        THEN ResultText =
                 Literal("No running activities found for weekly mileage calculation.")
        ELSE /\ ResultText.form = "weekly"
             /\ ResultText.total = Format1(MilesOf(RunIdx))
             /\ ResultText.average =
                    Format1(MilesOf(RunIdx) \div Cardinality(WeeksWithRuns))

C8_Witness ==
    /\ Done("get_weekly_mileage")
    /\ ResultText.form = "weekly"
    /\ Len(ResultText.lines) = 3
    /\ ResultText.weeks = 2
    /\ ResultText.average # ResultText.total

\* C9: the trend block is there if and only if at least two runs qualify;
\* its label is "stable" when the means of the last and of the first
\* min(3, n) paces, in chronological order, differ by less than 10 seconds,
\* otherwise "improving" when the recent mean is the smaller and "declining"
\* when not; one qualifying run gives one line and no trend.
C9_TrendLabel ==
    Done("analyze_pace_trends") =>
        LET n == Cardinality(PacedIdx)
            runs == SortByDate(SelectPaced(activities))
            k == Min(3, n)
            recent == SumSeq([i \in 1..k |-> PaceSeconds(runs[n - k + i].average_speed)])
                          \div k
            early == SumSeq([i \in 1..k |-> PaceSeconds(runs[i].average_speed)]) \div k
            label == IF recent - early < TenSeconds /\ early - recent < TenSeconds
                     THEN "stable"
                     ELSE IF recent < early THEN "improving" ELSE "declining"
        IN IF n = 0
           THEN ResultText = Literal("No running activities with pace data found.")
           ELSE /\ ResultText.form = "pace"
                /\ Len(ResultText.lines) = n
                /\ (ResultText.summary # None) <=> (n >= 2)
                /\ n >= 2 => Val(ResultText.summary).trend = label
                /\ \A i, j \in 1..n :
                      i < j => ~StrLess(runs[j].start_date_local, runs[i].start_date_local)

C9_Witness ==
    /\ Done("analyze_pace_trends")
    /\ ResultText.form = "pace"
    /\ Len(ResultText.lines) = 4
    /\ Val(ResultText.summary).trend = "declining"

====
